---- MODULE Spec2Model ----
(***************************************************************************)
(* The calculator engine of Rust-Calculator: the session state of          *)
(* state.rs, the arithmetic of operation.rs and the five event handlers    *)
(* and the display projection of calculator.rs.                            *)
(*                                                                         *)
(* Text is a sequence of one-character strings.  An Option is a sequence   *)
(* of length at most one (None == <<>>, Some(x) == <<x>>).                  *)
(*                                                                         *)
(* An f64 is modelled by the doubles of the form (+/-) man * 2^exp with    *)
(* man odd (or the two zeros, man = 0).  On these, IEEE-754 addition,      *)
(* subtraction, multiplication and division are exact whenever the exact   *)
(* result is again of that form, and the shortest round-trip decimal text  *)
(* is the exact decimal expansion.  A result that the double would round   *)
(* (1/3, the parse of "0.1") is the value Rounded; a step that would       *)
(* compute with it, or leave the magnitude bounds, is cut by InModel.      *)
(* The infinities and NaN are modelled too.  No product of two modelled    *)
(* finite numbers overflows; an infinity enters as the parse of a text of  *)
(* more than 309 integer digits, which holds the character ZeroRunChar     *)
(* for ZeroRun digits "0" typed in a row.                                  *)
(***************************************************************************)
EXTENDS Integers, Sequences, FiniteSets

\* ------------------------------------------------------------------ bounds
\* longest text the digit and decimal-point keys may build
MaxLen == 3
\* largest magnitude of a modelled number
MaxVal == 12
\* most binary fraction digits of a modelled number
MaxFrac == 1

\* ----------------------------------------------------------------- options
None == <<>>

Some(x) == <<x>>

IsSome(o) == o # <<>>

Unwrap(o) == o[1]

\* -------------------------------------------------------------------- text
DigitChars == <<"0", "1", "2", "3", "4", "5", "6", "7", "8", "9">>

\* u8::to_string for a digit 0..9
DigitToString(d) == <<DigitChars[d + 1]>>

DigitCharSet == {DigitChars[i] : i \in 1..10}

IsDigitChar(c) == c \in DigitCharSet

CharValues ==
    [c \in DigitCharSet |-> (CHOOSE i \in 1..10 : DigitChars[i] = c) - 1]

\* the digit a digit character writes
CharValue(c) == CharValues[c]

\* str::contains('.')
ContainsDot(s) == \E i \in 1..Len(s) : s[i] = "."

\* s.matches('.').count()
DotCount(s) == Cardinality({i \in 1..Len(s) : s[i] = "."})

Text(str) ==
    CASE str = "0" -> <<"0">>
      [] str = "0." -> <<"0", ".">>
      [] str = "." -> <<".">>
      [] str = "Error: Division by zero" ->
           <<"E", "r", "r", "o", "r", ":", " ", "D", "i", "v", "i", "s",
             "i", "o", "n", " ", "b", "y", " ", "z", "e", "r", "o">>
      [] str = "Error: Overflow" ->
           <<"E", "r", "r", "o", "r", ":", " ", "O", "v", "e", "r", "f",
             "l", "o", "w">>

\* ----------------------------------------------------------------- numbers
RECURSIVE Pow(_, _)
Pow(b, k) == IF k = 0 THEN 1 ELSE b * Pow(b, k - 1)

Abs(i) == IF i < 0 THEN -i ELSE i

Min(a, b) == IF a < b THEN a ELSE b

\* a double the model does not represent exactly
Rounded == [kind |-> "rounded"]

RECURSIVE Norm(_, _, _)
\* the double (+/-) m * 2^e with its mantissa made odd
Norm(neg, m, e) ==
    IF m = 0 THEN [kind |-> "fin", neg |-> neg, man |-> 0, exp |-> 0]
    ELSE IF m % 2 = 0 THEN Norm(neg, m \div 2, e + 1)
    ELSE [kind |-> "fin", neg |-> neg, man |-> m, exp |-> e]

IsFin(v) == v.kind = "fin"

\* f64::INFINITY and f64::NEG_INFINITY
Inf(neg) == [kind |-> "inf", neg |-> neg]

\* f64::NAN
NaN == [kind |-> "nan", neg |-> FALSE]

\* f64 == 0.0 (true of both zeros)
IsZero(v) == IsFin(v) /\ v.man = 0

\* the integer v * 2^(-e), for e <= v.exp
Scaled(v, e) == (IF v.neg THEN -1 ELSE 1) * v.man * Pow(2, v.exp - e)

\* f64::is_infinite, f64::is_nan
IsInfinite(v) == v.kind = "inf"

IsNan(v) == v.kind = "nan"

\* the modelled numbers: the finite ones within the magnitude and fraction
\* bounds, the infinities and NaN
InModel(v) ==
    IF IsFin(v)
    THEN /\ v.exp >= -MaxFrac
         /\ v.man <= MaxVal * Pow(2, MaxFrac)
         /\ (v.exp > 0 => v.exp <= MaxVal /\ Pow(2, v.exp) <= MaxVal)
         /\ (v.exp > 0 => v.man * Pow(2, v.exp) <= MaxVal)
         /\ (v.exp < 0 => v.man <= MaxVal * Pow(2, -v.exp))
    ELSE IsInfinite(v) \/ IsNan(v)

F64Neg(x) == IF IsNan(x) THEN x ELSE [x EXCEPT !.neg = ~x.neg]

\* left + right
F64Add(x, y) ==
    IF IsFin(x) /\ IsFin(y)
    THEN LET e == Min(x.exp, y.exp)
             sum == Scaled(x, e) + Scaled(y, e)
         IN  IF sum = 0 THEN Norm(x.neg /\ y.neg, 0, 0)
             ELSE Norm(sum < 0, Abs(sum), e)
    ELSE IF IsNan(x) \/ IsNan(y) THEN NaN
    ELSE IF IsInfinite(x) /\ IsInfinite(y)
    THEN IF x.neg = y.neg THEN x ELSE NaN
    ELSE IF IsInfinite(x) THEN x ELSE y

\* left - right
F64Sub(x, y) == F64Add(x, F64Neg(y))

\* left * right
F64Mul(x, y) ==
    IF IsFin(x) /\ IsFin(y)
    THEN Norm(x.neg # y.neg, x.man * y.man, x.exp + y.exp)
    ELSE IF IsNan(x) \/ IsNan(y) \/ IsZero(x) \/ IsZero(y) THEN NaN
    ELSE Inf(x.neg # y.neg)

\* left / right, right # 0
F64Div(x, y) ==
    IF IsFin(x) /\ IsFin(y)
    THEN IF x.man % y.man = 0
         THEN Norm(x.neg # y.neg, x.man \div y.man, x.exp - y.exp)
         ELSE Rounded
    ELSE IF IsNan(x) \/ IsNan(y) \/ (IsInfinite(x) /\ IsInfinite(y)) THEN NaN
    ELSE IF IsInfinite(x) THEN Inf(x.neg # y.neg)
    ELSE Norm(x.neg # y.neg, 0, 0)

\* ------------------------------------------------------- text <-> numbers
RECURSIVE NatToString(_)
NatToString(n) ==
    IF n < 10 THEN DigitToString(n)
    ELSE NatToString(n \div 10) \o DigitToString(n % 10)

RECURSIVE ZeroPad(_, _)
\* s with zeros in front up to width k
ZeroPad(s, k) == IF Len(s) >= k THEN s ELSE ZeroPad(<<"0">> \o s, k)

\* the texts of the infinities (after the sign) and of NaN
InfText == <<"i", "n", "f">>

NanText == <<"N", "a", "N">>

\* the number of digits "0" that one ZeroRunChar stands for: a text with a
\* first digit 1..9 and that many more integer digits is beyond f64::MAX
ZeroRun == 309

ZeroRunChar == "Z"

\* f64::to_string (Display): the shortest decimal text that parses back to
\* v, never in exponent form; "-" in front of a negative number and of -0;
\* "inf", "-inf" and "NaN"
ToString(v) ==
    LET sign == IF v.neg THEN <<"-">> ELSE <<>>
        k == -v.exp
        dec == v.man * Pow(5, k)
    IN  IF IsNan(v) THEN NanText
        ELSE IF IsInfinite(v) THEN sign \o InfText
        ELSE IF v.exp >= 0
        THEN sign \o NatToString(v.man * Pow(2, v.exp))
        ELSE sign \o NatToString(dec \div Pow(10, k)) \o <<".">>
                  \o ZeroPad(NatToString(dec % Pow(10, k)), k)

ParseError == [kind |-> "err"]

RECURSIVE DigitsValue(_, _)
\* the integer written by the first n of a sequence of digit characters
DigitsValue(s, n) ==
    IF n = 0 THEN 0
    ELSE 10 * DigitsValue(s, n - 1) + CharValue(s[n])

\* str::parse::<f64> on the texts the engine can hold: an optional "-",
\* then digits with at most one ".", at least one digit; "inf" and "NaN";
\* a text with a run of zeros, which follows a first digit 1..9, is a
\* number beyond f64::MAX and parses as an infinity
Parse(s) ==
    LET neg == s # <<>> /\ s[1] = "-"
        body == IF neg THEN Tail(s) ELSE s
        digits == SelectSeq(body, IsDigitChar)
        dot == CHOOSE i \in 1..Len(body) : body[i] = "."
        k == IF ContainsDot(body) THEN Len(body) - dot ELSE 0
        n == DigitsValue(digits, Len(digits))
    IN  IF body = InfText THEN Inf(neg)
        ELSE IF s = NanText THEN NaN
        ELSE IF \E i \in 1..Len(body) : body[i] = ZeroRunChar THEN Inf(neg)
        ELSE IF \/ digits = <<>>
           \/ DotCount(body) > 1
           \/ \E i \in 1..Len(body) : ~IsDigitChar(body[i]) /\ body[i] # "."
        THEN ParseError
        ELSE IF n % Pow(5, k) = 0
             THEN Norm(neg, n \div Pow(5, k), -k)
             ELSE Rounded

IsParsed(v) == v.kind # "err"

\* --------------------------------------------------------------- operation
Operations == {"Add", "Subtract", "Multiply", "Divide"}

Ok(v) == [ok |-> TRUE, val |-> v]

Err(msg) == [ok |-> FALSE, err |-> msg]

DivisionByZero == Text("Error: Division by zero")

Overflow == Text("Error: Overflow")

\* apply with the operands of Subtract exchanged
m_Apply_swapped(op, left, right) ==
    CASE op = "Add" -> Ok(F64Add(left, right))
      [] op = "Subtract" -> Ok(F64Sub(right, left))
      [] op = "Multiply" -> Ok(F64Mul(left, right))
      [] op = "Divide" ->
           IF IsZero(right) THEN Err(DivisionByZero)
           ELSE Ok(F64Div(left, right))

\* apply without the failure of Divide: a zero divisor gives a zero result
m_Apply_unchecked(op, left, right) ==
    CASE op = "Add" -> Ok(F64Add(left, right))
      [] op = "Subtract" -> Ok(F64Sub(left, right))
      [] op = "Multiply" -> Ok(F64Mul(left, right))
      [] op = "Divide" ->
           IF IsZero(right) THEN Ok(right)
           ELSE Ok(F64Div(left, right))

\* Operation::apply
Apply(op, left, right) ==
    CASE op = "Add" -> Ok(F64Add(left, right))
      [] op = "Subtract" -> Ok(F64Sub(left, right))
      [] op = "Multiply" -> Ok(F64Mul(left, right))
      [] op = "Divide" ->
           IF IsZero(right) THEN Err(DivisionByZero)
           ELSE Ok(F64Div(left, right))

\* ------------------------------------------------------------------- state
VARIABLES
    display,              \* CalculatorState::display, a text
    stored_value,         \* Option<f64>
    current_operation,    \* Option<Operation>
    waiting_for_operand,  \* bool
    error,                \* Option<String>, a text when present
    fresh_start,          \* bool
    applied,              \* one call of Operation::apply made on its own:
                          \* its arguments and, once made, its result
    last,                 \* history: the call made last, its argument and
                          \* whether error was set when it was made
    typed,                \* history: the digits entered, while the session
                          \* consists of valid digit inputs only
    shape,                \* history: the calls of the session since
                          \* construction or clear, one letter per call, a
                          \* run of digit inputs written as one "D", while
                          \* they follow one of the Scenarios
    shown,                \* the text of the shell's label: what
                          \* get_display_text returned when it was read
                          \* after the last call
    accepted,             \* history: a digit or decimal-point input was
                          \* made with a valid argument and no error set,
                          \* since construction or the last clear
    script                \* a scripted session a, op1, b, op2, c, equals
                          \* and the number of its calls made so far;
                          \* absent when the buttons are pressed freely

state == <<display, stored_value, current_operation, waiting_for_operand,
           error, fresh_start>>

vars == <<display, stored_value, current_operation, waiting_for_operand,
          error, fresh_start, applied, last, typed, shape, shown, accepted,
          script>>

\* the digit arguments tried: valid digits and one out-of-range u8
DigitInputs == {0, 1, 5, 10}

\* CalculatorState::new
New ==
    [display |-> Text("0"), stored_value |-> None,
     current_operation |-> None, waiting_for_operand |-> FALSE,
     error |-> None, fresh_start |-> TRUE]

\* the session state as one record
Current ==
    [display |-> display, stored_value |-> stored_value,
     current_operation |-> current_operation,
     waiting_for_operand |-> waiting_for_operand,
     error |-> error, fresh_start |-> fresh_start]

\* a read that forgets the error
m_get_display_text == display

\* Calculator::get_display_text
get_display_text == IF IsSome(error) THEN Unwrap(error) ELSE display

\* ----------------------------------------------------------------- history
\* the sessions whose shape is followed: D digits, P decimal point,
\* O operation, E equals
Scenarios ==
    {<<"D", "O", "D", "E", "D">>,
     <<"D", "O", "D", "E", "O">>,
     <<"D", "O", "O", "O">>,
     <<"D", "O", "D", "O">>,
     <<"D", "O", "D", "E", "E">>,
     <<"D", "O", "P">>,
     <<"D", "O", "D", "E", "D", "O">>,
     <<"D", "P", "D", "P">>}

IsPrefix(s, t) == Len(s) <= Len(t) /\ SubSeq(t, 1, Len(s)) = s

\* the shape of a session that has left the scenarios
Saturated == <<"X">>

\* the shape after one more call with letter tok
Extend(tok) ==
    IF shape = Saturated THEN Saturated
    ELSE IF tok = "D" /\ shape # <<>> /\ shape[Len(shape)] = "D" THEN shape
    ELSE IF \E t \in Scenarios : IsPrefix(Append(shape, tok), t)
         THEN Append(shape, tok)
         ELSE Saturated

\* the shell draws its label from get_display_text after the call
Render == shown' = get_display_text'

Record(call, arg, tok) ==
    /\ last' = [call |-> call, arg |-> arg, blocked |-> IsSome(error)]
    /\ UNCHANGED applied
    /\ shape' = Extend(tok)
    /\ typed' = IF tok = "D" /\ shape \in {<<>>, <<"D">>}
                THEN typed \o arg ELSE <<>>
    /\ accepted' = (accepted \/ (tok \in {"D", "P"} /\ ~IsSome(error)))
    /\ Render

\* ---------------------------------------------------------------- handlers
\* Definitions named m_... are faulty variants of the definition that
\* follows them; the model does not use them.

\* handlers that forget the error check
m_Blocked == FALSE

\* self.state.error.is_some(), the first test of four handlers
Blocked == IsSome(error)

\* the replace test without fresh_start
m_ReplacesDisplay_waiting == waiting_for_operand

\* the replace test without waiting_for_operand
m_ReplacesDisplay_fresh == fresh_start

\* the test that makes a digit or a decimal point start a new number
ReplacesDisplay == waiting_for_operand \/ fresh_start

\* input_operation that applies the pending operation on every call
m_NewOperandEntered == TRUE

\* input_operation that never applies the pending operation
m_NewOperandEntered_never == FALSE

\* the test that makes input_operation apply the pending operation
NewOperandEntered == ~waiting_for_operand

\* input_decimal_point that appends without looking
m_NoDecimalPoint == TRUE

\* !self.state.display.contains('.')
NoDecimalPoint == ~ContainsDot(display)

\* Calculator::input_digit
input_digit(digit) ==
    IF Blocked THEN UNCHANGED state
    ELSE IF digit > 9 THEN UNCHANGED state
    ELSE IF ReplacesDisplay
    THEN /\ display' = DigitToString(digit)
         /\ waiting_for_operand' = FALSE
         /\ fresh_start' = FALSE
         /\ UNCHANGED <<stored_value, current_operation, error>>
    ELSE /\ Len(display) < MaxLen
         /\ display' = display \o DigitToString(digit)
         /\ UNCHANGED <<stored_value, current_operation,
                        waiting_for_operand, error, fresh_start>>

\* input_decimal_point that starts a number without ending the fresh start
m_input_decimal_point ==
    IF Blocked THEN UNCHANGED state
    ELSE IF ReplacesDisplay
    THEN /\ display' = Text("0.")
         /\ waiting_for_operand' = FALSE
         /\ UNCHANGED <<stored_value, current_operation, error,
                        fresh_start>>
    ELSE IF NoDecimalPoint
    THEN /\ Len(display) < MaxLen
         /\ display' = Append(display, ".")
         /\ UNCHANGED <<stored_value, current_operation,
                        waiting_for_operand, error, fresh_start>>
    ELSE UNCHANGED state

\* Calculator::input_decimal_point
input_decimal_point ==
    IF Blocked THEN UNCHANGED state
    ELSE IF ReplacesDisplay
    THEN /\ display' = Text("0.")
         /\ waiting_for_operand' = FALSE
         /\ fresh_start' = FALSE
         /\ UNCHANGED <<stored_value, current_operation, error>>
    ELSE IF NoDecimalPoint
    THEN /\ Len(display) < MaxLen
         /\ display' = Append(display, ".")
         /\ UNCHANGED <<stored_value, current_operation,
                        waiting_for_operand, error, fresh_start>>
    ELSE UNCHANGED state

\* input_operation that records the operation but not the first operand
m_input_operation(op) ==
    IF Blocked THEN UNCHANGED state
    ELSE IF display = <<>> \/ display = Text(".") THEN UNCHANGED state
    ELSE LET current_value == Parse(display) IN
    IF ~IsParsed(current_value) THEN UNCHANGED state
    ELSE IF IsSome(stored_value) /\ IsSome(current_operation)
    THEN IF NewOperandEntered
         THEN /\ InModel(current_value)
              /\ LET r == Apply(Unwrap(current_operation),
                                Unwrap(stored_value), current_value)
                 IN  IF r.ok
                     THEN /\ InModel(r.val)
                          /\ display' = ToString(r.val)
                          /\ stored_value' = Some(r.val)
                          /\ current_operation' = Some(op)
                          /\ waiting_for_operand' = TRUE
                          /\ UNCHANGED <<error, fresh_start>>
                     ELSE /\ error' = Some(r.err)
                          /\ UNCHANGED <<display, stored_value,
                                         current_operation,
                                         waiting_for_operand, fresh_start>>
         ELSE /\ current_operation' = Some(op)
              /\ waiting_for_operand' = TRUE
              /\ UNCHANGED <<display, stored_value, error, fresh_start>>
    ELSE /\ InModel(current_value)
         /\ current_operation' = Some(op)
         /\ waiting_for_operand' = TRUE
         /\ UNCHANGED <<display, stored_value, error, fresh_start>>

\* Calculator::input_operation
input_operation(op) ==
    IF Blocked THEN UNCHANGED state
    ELSE IF display = <<>> \/ display = Text(".") THEN UNCHANGED state
    ELSE LET current_value == Parse(display) IN
    IF ~IsParsed(current_value) THEN UNCHANGED state
    ELSE IF IsSome(stored_value) /\ IsSome(current_operation)
    THEN IF NewOperandEntered
         THEN /\ InModel(current_value)
              /\ LET r == Apply(Unwrap(current_operation),
                                Unwrap(stored_value), current_value)
                 IN  IF r.ok
                     THEN /\ InModel(r.val)
                          /\ display' = ToString(r.val)
                          /\ stored_value' = Some(r.val)
                          /\ current_operation' = Some(op)
                          /\ waiting_for_operand' = TRUE
                          /\ UNCHANGED <<error, fresh_start>>
                     ELSE /\ error' = Some(r.err)
                          /\ UNCHANGED <<display, stored_value,
                                         current_operation,
                                         waiting_for_operand, fresh_start>>
         ELSE /\ current_operation' = Some(op)
              /\ waiting_for_operand' = TRUE
              /\ UNCHANGED <<display, stored_value, error, fresh_start>>
    ELSE /\ InModel(current_value)
         /\ stored_value' = Some(current_value)
         /\ current_operation' = Some(op)
         /\ waiting_for_operand' = TRUE
         /\ UNCHANGED <<display, error, fresh_start>>

\* calculate that leaves the operation pending after a result
m_calculate ==
    IF Blocked THEN UNCHANGED state
    ELSE IF ~IsSome(stored_value) THEN UNCHANGED state
    ELSE IF ~IsSome(current_operation) THEN UNCHANGED state
    ELSE LET current_value == Parse(display) IN
    IF ~IsParsed(current_value) THEN UNCHANGED state
    ELSE /\ InModel(current_value)
         /\ LET r == Apply(Unwrap(current_operation),
                           Unwrap(stored_value), current_value)
            IN  IF r.ok
                THEN IF IsInfinite(r.val) \/ IsNan(r.val)
                     THEN /\ error' = Some(Overflow)
                          /\ UNCHANGED <<display, stored_value,
                                         current_operation,
                                         waiting_for_operand, fresh_start>>
                     ELSE /\ InModel(r.val)
                          /\ display' = ToString(r.val)
                          /\ stored_value' = Some(r.val)
                          /\ waiting_for_operand' = TRUE
                          /\ UNCHANGED <<current_operation, error,
                                         fresh_start>>
                ELSE /\ error' = Some(r.err)
                     /\ UNCHANGED <<display, stored_value,
                                    current_operation, waiting_for_operand,
                                    fresh_start>>

\* calculate that, with no operation pending, still waits for a new operand
m_calculate_waits ==
    IF Blocked THEN UNCHANGED state
    ELSE IF ~IsSome(stored_value) THEN UNCHANGED state
    ELSE IF ~IsSome(current_operation)
    THEN /\ waiting_for_operand' = TRUE
         /\ UNCHANGED <<display, stored_value, current_operation, error,
                        fresh_start>>
    ELSE LET current_value == Parse(display) IN
    IF ~IsParsed(current_value) THEN UNCHANGED state
    ELSE /\ InModel(current_value)
         /\ LET r == Apply(Unwrap(current_operation),
                           Unwrap(stored_value), current_value)
            IN  IF r.ok
                THEN IF IsInfinite(r.val) \/ IsNan(r.val)
                     THEN /\ error' = Some(Overflow)
                          /\ UNCHANGED <<display, stored_value,
                                         current_operation,
                                         waiting_for_operand, fresh_start>>
                     ELSE /\ InModel(r.val)
                          /\ display' = ToString(r.val)
                          /\ stored_value' = Some(r.val)
                          /\ current_operation' = None
                          /\ waiting_for_operand' = TRUE
                          /\ UNCHANGED <<error, fresh_start>>
                ELSE /\ error' = Some(r.err)
                     /\ UNCHANGED <<display, stored_value,
                                    current_operation, waiting_for_operand,
                                    fresh_start>>

\* Calculator::calculate
calculate ==
    IF Blocked THEN UNCHANGED state
    ELSE IF ~IsSome(stored_value) THEN UNCHANGED state
    ELSE IF ~IsSome(current_operation) THEN UNCHANGED state
    ELSE LET current_value == Parse(display) IN
    IF ~IsParsed(current_value) THEN UNCHANGED state
    ELSE /\ InModel(current_value)
         /\ LET r == Apply(Unwrap(current_operation),
                           Unwrap(stored_value), current_value)
            IN  IF r.ok
                THEN IF IsInfinite(r.val) \/ IsNan(r.val)
                     THEN /\ error' = Some(Overflow)
                          /\ UNCHANGED <<display, stored_value,
                                         current_operation,
                                         waiting_for_operand, fresh_start>>
                     ELSE /\ InModel(r.val)
                          /\ display' = ToString(r.val)
                          /\ stored_value' = Some(r.val)
                          /\ current_operation' = None
                          /\ waiting_for_operand' = TRUE
                          /\ UNCHANGED <<error, fresh_start>>
                ELSE /\ error' = Some(r.err)
                     /\ UNCHANGED <<display, stored_value,
                                    current_operation, waiting_for_operand,
                                    fresh_start>>

\* clear that resets the display and the flags only
m_clear ==
    /\ display' = New.display
    /\ waiting_for_operand' = New.waiting_for_operand
    /\ fresh_start' = New.fresh_start
    /\ UNCHANGED <<stored_value, current_operation, error>>

\* Calculator::clear
clear ==
    /\ display' = New.display
    /\ stored_value' = New.stored_value
    /\ current_operation' = New.current_operation
    /\ waiting_for_operand' = New.waiting_for_operand
    /\ error' = New.error
    /\ fresh_start' = New.fresh_start

\* ------------------------------------------------- the shell's five events
InputDigit ==
    \E digit \in DigitInputs :
        /\ input_digit(digit)
        /\ Record("input_digit", <<digit>>, IF digit > 9 THEN "X" ELSE "D")
        /\ UNCHANGED script

InputDecimalPoint ==
    /\ input_decimal_point
    /\ Record("input_decimal_point", <<>>, "P")
    /\ UNCHANGED script

InputOperation ==
    \E op \in Operations :
        /\ input_operation(op)
        /\ Record("input_operation", <<op>>, "O")
        /\ UNCHANGED script

Calculate ==
    /\ calculate
    /\ Record("calculate", <<>>, "E")
    /\ UNCHANGED script

Clear ==
    /\ clear
    /\ last' = [call |-> "clear", arg |-> <<>>, blocked |-> IsSome(error)]
    /\ UNCHANGED applied
    /\ shape' = <<>>
    /\ typed' = <<>>
    /\ accepted' = FALSE
    /\ Render
    /\ UNCHANGED script

\* Calculator::new
Init ==
    /\ display = New.display
    /\ stored_value = New.stored_value
    /\ current_operation = New.current_operation
    /\ waiting_for_operand = New.waiting_for_operand
    /\ error = New.error
    /\ fresh_start = New.fresh_start
    /\ applied = None
    /\ last = [call |-> "new", arg |-> <<>>, blocked |-> FALSE]
    /\ shape = <<>>
    /\ typed = <<>>
    /\ shown = get_display_text
    /\ accepted = FALSE
    /\ script = None

Next ==
    \/ InputDigit
    \/ InputDecimalPoint
    \/ InputOperation
    \/ Calculate
    \/ Clear

Spec == Init /\ [][Next]_vars

\* ------------------------------------------- Operation::apply on its own
\* the modelled numbers, both zeros included
Values ==
    {Norm(neg, m, -MaxFrac) :
        neg \in BOOLEAN, m \in 0..(MaxVal * Pow(2, MaxFrac))}

InitApply ==
    /\ display = New.display
    /\ stored_value = New.stored_value
    /\ current_operation = New.current_operation
    /\ waiting_for_operand = New.waiting_for_operand
    /\ error = New.error
    /\ fresh_start = New.fresh_start
    /\ applied \in {Some([op |-> op, left |-> l, right |-> r,
                          result |-> None]) :
                        op \in Operations, l \in Values, r \in Values}
    /\ last = [call |-> "new", arg |-> <<>>, blocked |-> FALSE]
    /\ shape = <<>>
    /\ typed = <<>>
    /\ shown = get_display_text
    /\ accepted = FALSE
    /\ script = None

ApplyOperation ==
    /\ IsSome(applied)
    /\ Unwrap(applied).result = None
    /\ LET a == Unwrap(applied)
           r == Apply(a.op, a.left, a.right)
       IN  /\ r.ok => InModel(r.val)
           /\ applied' = Some([a EXCEPT !.result = Some(r)])
    /\ UNCHANGED <<state, last, typed, shape, shown, accepted, script>>

NextApply == ApplyOperation

SpecApply == InitApply /\ [][NextApply]_vars

\* ------------------------------------ sessions that type very long numbers
\* ZeroRun calls of input_digit(0) in a row, made while the display holds
\* digits of which the first is 1..9: each call takes the append branch
InputZeros ==
    /\ ~Blocked
    /\ ~ReplacesDisplay
    /\ display # <<>>
    /\ display[1] # "0"
    /\ \A i \in 1..Len(display) : IsDigitChar(display[i])
    /\ Len(display) < MaxLen
    /\ display' = Append(display, ZeroRunChar)
    /\ UNCHANGED <<stored_value, current_operation, waiting_for_operand,
                   error, fresh_start>>
    /\ Record("input_digit", <<0>>, "X")
    /\ UNCHANGED script

NextOverflow ==
    \/ InputDigit
    \/ InputZeros
    \/ InputDecimalPoint
    \/ InputOperation
    \/ Calculate
    \/ Clear

SpecOverflow == Init /\ [][NextOverflow]_vars

\* ------------------------------------------------ one scripted session
\* the operands a scripted session types, digit by digit
ChainOperands == {<<0>>, <<1>>, <<5>>, <<1, 0>>, <<0, 5>>}

\* the sessions a, op1, b, op2, c, equals
Scripts ==
    [a : ChainOperands, op1 : Operations, b : ChainOperands,
     op2 : Operations, c : ChainOperands, done : {0}]

DigitCalls(ds) ==
    [i \in 1..Len(ds) |->
        [call |-> "input_digit", digit |-> ds[i], op |-> ""]]

OperationCall(op) == <<[call |-> "input_operation", digit |-> 0, op |-> op]>>

EqualsCall == <<[call |-> "calculate", digit |-> 0, op |-> ""]>>

\* the digits the shorter scripted sessions type
ScriptDigits == {0, 1, 5}

\* the operand of a session a, op1, equals: no digit, one or two
RepeatOperands ==
    {<<>>} \cup {<<x>> : x \in ScriptDigits}
           \cup {<<x, y>> : x, y \in ScriptDigits}

\* the sessions a, op1, equals
RepeatScripts == [a : RepeatOperands, op1 : Operations, done : {0}]

\* the operands of a session with two calculations
AfterOperands == {<<x>> : x \in ScriptDigits}

\* the sessions a, op1, b, equals, c, op2, d, equals
AfterScripts ==
    [a : AfterOperands, op1 : Operations, b : AfterOperands,
     c : AfterOperands, op2 : Operations, d : AfterOperands, done : {0}]

\* the calls of a scripted session, in order
ScriptCalls(s) ==
    IF "d" \in DOMAIN s
    THEN DigitCalls(s.a) \o OperationCall(s.op1) \o DigitCalls(s.b)
            \o EqualsCall \o DigitCalls(s.c) \o OperationCall(s.op2)
            \o DigitCalls(s.d) \o EqualsCall
    ELSE IF "b" \in DOMAIN s
    THEN DigitCalls(s.a) \o OperationCall(s.op1) \o DigitCalls(s.b)
            \o OperationCall(s.op2) \o DigitCalls(s.c) \o EqualsCall
    ELSE DigitCalls(s.a) \o OperationCall(s.op1) \o EqualsCall

\* the next call of the scripted session
NextCall == ScriptCalls(Unwrap(script))[Unwrap(script).done + 1]

HasNextCall ==
    /\ IsSome(script)
    /\ Unwrap(script).done < Len(ScriptCalls(Unwrap(script)))

Advance == script' = Some([Unwrap(script) EXCEPT !.done = @ + 1])

PlayDigit ==
    /\ HasNextCall
    /\ NextCall.call = "input_digit"
    /\ input_digit(NextCall.digit)
    /\ Record("input_digit", <<NextCall.digit>>, "D")
    /\ Advance

PlayOperation ==
    /\ HasNextCall
    /\ NextCall.call = "input_operation"
    /\ input_operation(NextCall.op)
    /\ Record("input_operation", <<NextCall.op>>, "O")
    /\ Advance

PlayEquals ==
    /\ HasNextCall
    /\ NextCall.call = "calculate"
    /\ calculate
    /\ Record("calculate", <<>>, "E")
    /\ Advance

InitChain ==
    /\ display = New.display
    /\ stored_value = New.stored_value
    /\ current_operation = New.current_operation
    /\ waiting_for_operand = New.waiting_for_operand
    /\ error = New.error
    /\ fresh_start = New.fresh_start
    /\ applied = None
    /\ last = [call |-> "new", arg |-> <<>>, blocked |-> FALSE]
    /\ shape = <<>>
    /\ typed = <<>>
    /\ shown = get_display_text
    /\ accepted = FALSE
    /\ script \in {Some(s) : s \in Scripts}

NextChain ==
    \/ PlayDigit
    \/ PlayOperation
    \/ PlayEquals

SpecChain == InitChain /\ [][NextChain]_vars

InitRepeat ==
    /\ display = New.display
    /\ stored_value = New.stored_value
    /\ current_operation = New.current_operation
    /\ waiting_for_operand = New.waiting_for_operand
    /\ error = New.error
    /\ fresh_start = New.fresh_start
    /\ applied = None
    /\ last = [call |-> "new", arg |-> <<>>, blocked |-> FALSE]
    /\ shape = <<>>
    /\ typed = <<>>
    /\ shown = get_display_text
    /\ accepted = FALSE
    /\ script \in {Some(s) : s \in RepeatScripts}

SpecRepeat == InitRepeat /\ [][NextChain]_vars

InitAfter ==
    /\ display = New.display
    /\ stored_value = New.stored_value
    /\ current_operation = New.current_operation
    /\ waiting_for_operand = New.waiting_for_operand
    /\ error = New.error
    /\ fresh_start = New.fresh_start
    /\ applied = None
    /\ last = [call |-> "new", arg |-> <<>>, blocked |-> FALSE]
    /\ shape = <<>>
    /\ typed = <<>>
    /\ shown = get_display_text
    /\ accepted = FALSE
    /\ script \in {Some(s) : s \in AfterScripts}

SpecAfter == InitAfter /\ [][NextChain]_vars

\* ================================================================== claims
BlockedCalls ==
    {"input_digit", "input_decimal_point", "input_operation", "calculate"}

\* C1: once error is set, a call of input_digit, input_decimal_point,
\* input_operation or calculate leaves all six fields of the session state
\* unchanged and get_display_text keeps returning the same error text; a
\* step that leaves the error state is a clear.
C1_ErrorBlocksCalls ==
    [][IsSome(error) =>
          /\ last'.call \in BlockedCalls =>
                /\ state' = state
                /\ get_display_text' = Unwrap(error)
          /\ ~IsSome(error') => last'.call = "clear"]_vars

\* a digit was entered after a division by zero and was ignored
C1_Witness ==
    /\ shape = <<"D", "O", "D", "E", "D">>
    /\ last.call = "input_digit"
    /\ last.blocked
    /\ error = Some(DivisionByZero)
    /\ get_display_text = DivisionByZero

\* C2: whatever the state before it, error states included, clear leaves
\* display "0", no stored value, no operation, waiting_for_operand false,
\* no error and fresh_start true, the state of a new engine.
C2_ClearResets ==
    last.call = "clear" =>
        /\ display = <<"0">>
        /\ stored_value = None
        /\ current_operation = None
        /\ waiting_for_operand = FALSE
        /\ error = None
        /\ fresh_start = TRUE
        /\ Current = New

\* clear was called in an error state
C2_Witness ==
    /\ last.call = "clear"
    /\ last.blocked
    /\ get_display_text = <<"0">>

\* the text of a sequence of digits, digit by digit
DigitsText(ds) == [i \in 1..Len(ds) |-> DigitChars[ds[i] + 1]]

RECURSIVE DigitsNumber(_)
\* the integer written by a sequence of digits
DigitsNumber(ds) ==
    IF ds = <<>> THEN 0
    ELSE 10 * DigitsNumber(SubSeq(ds, 1, Len(ds) - 1)) + ds[Len(ds)]

\* C3: while the session since construction is a non-empty sequence of
\* digit inputs 0..9, get_display_text is the concatenation of the digits'
\* texts.
C3_DigitsConcatenate ==
    typed # <<>> => get_display_text = DigitsText(typed)

\* three digits entered into a new engine, the first of them a zero
C3_Witness ==
    /\ typed = <<0, 1, 5>>
    /\ display = <<"0", "1", "5">>

\* C4: in every reachable state get_display_text holds at most one ".".
C4_SingleDecimalPoint == DotCount(get_display_text) <= 1

\* digits, a decimal point, a digit and a second decimal point
C4_Witness ==
    /\ shape = <<"D", "P", "D", "P">>
    /\ last.call = "input_decimal_point"
    /\ display = <<"1", ".", "5">>

\* C5: when input_operation(op) follows a non-empty sequence of digits D
\* entered into a new engine, stored_value is the number D writes,
\* current_operation is op and waiting_for_operand is true.
C5_OperationStoresOperand ==
    [][(typed # <<>> /\ last'.call = "input_operation") =>
          /\ stored_value' = Some(Norm(FALSE, DigitsNumber(typed), 0))
          /\ current_operation' = last'.arg
          /\ waiting_for_operand' = TRUE]_vars

\* digits 1, 0 and then Multiply
C5_Witness ==
    /\ shape = <<"D", "O">>
    /\ display = <<"1", "0">>
    /\ stored_value = Some(Norm(FALSE, 10, 0))
    /\ current_operation = Some("Multiply")
    /\ waiting_for_operand

\* the result of the pending operation on the stored value and the display
Pending == Apply(Unwrap(current_operation), Unwrap(stored_value),
                 Parse(display))

\* calculate has something to compute
CanCalculate ==
    /\ ~IsSome(error)
    /\ IsSome(stored_value)
    /\ IsSome(current_operation)
    /\ InModel(Parse(display))

\* C6: when calculate runs with a stored value a, an operation op and a
\* display of value b, and op applied to (a, b) gives a finite R, then
\* display is the text of R (it parses back to R), stored_value is R,
\* current_operation is absent, waiting_for_operand is true and error is
\* absent.
C6_CalculateResult ==
    [][(last'.call = "calculate" /\ CanCalculate /\ Pending.ok
           /\ IsFin(Pending.val)) =>
          /\ display' = ToString(Pending.val)
          /\ Parse(display') = Pending.val
          /\ stored_value' = Some(Pending.val)
          /\ current_operation' = None
          /\ waiting_for_operand' = TRUE
          /\ error' = None]_vars

\* 5, an operation, 10, equals with the result 0.5 (5 / 10)
C6_Witness ==
    /\ shape = <<"D", "O", "D", "E">>
    /\ last.call = "calculate"
    /\ display = <<"0", ".", "5">>
    /\ stored_value = Some(Norm(FALSE, 1, -1))
    /\ current_operation = None
    /\ waiting_for_operand
    /\ error = None

\* C7: when calculate runs with Divide pending and a display of value
\* zero, error becomes the division-by-zero message and the other five
\* fields keep their values; get_display_text is then the error text, a
\* following input_digit does not change it and clear gives display "0".
C7_DivisionByZero ==
    [][/\ (/\ last'.call = "calculate"
           /\ CanCalculate
           /\ current_operation = Some("Divide")
           /\ IsZero(Parse(display))) =>
             /\ error' = Some(DivisionByZero)
             /\ get_display_text' = DivisionByZero
             /\ UNCHANGED <<display, stored_value, current_operation,
                            waiting_for_operand, fresh_start>>
       /\ (error = Some(DivisionByZero) /\ last'.call = "input_digit") =>
             get_display_text' = DivisionByZero
       /\ (error = Some(DivisionByZero) /\ last'.call = "clear") =>
             get_display_text' = <<"0">>]_vars

\* 5, Divide, 0, equals and then the digit 5
C7_Witness ==
    /\ shape = <<"D", "O", "D", "E", "D">>
    /\ last = [call |-> "input_digit", arg |-> <<5>>, blocked |-> TRUE]
    /\ stored_value = Some(Norm(FALSE, 5, 0))
    /\ current_operation = Some("Divide")
    /\ display = <<"0">>
    /\ get_display_text = DivisionByZero

\* C8: after digits, an operation, digits and a calculate that gave the
\* result R, input_digit(d) makes the display the text of d alone, and
\* input_operation(op2) leaves stored_value R with current_operation op2.
C8_AfterResult ==
    [][(shape = <<"D", "O", "D", "E">> /\ ~IsSome(error)) =>
          /\ stored_value = Some(Parse(display))
          /\ (last'.call = "input_digit" /\ last'.arg[1] <= 9) =>
                get_display_text' = DigitToString(last'.arg[1])
          /\ last'.call = "input_operation" =>
                /\ stored_value' = stored_value
                /\ current_operation' = last'.arg]_vars

\* 5 + 5 = 10 and then the digit 5: the display is "5", not "105"
C8_Witness ==
    /\ shape = <<"D", "O", "D", "E", "D">>
    /\ last = [call |-> "input_digit", arg |-> <<5>>, blocked |-> FALSE]
    /\ stored_value = Some(Norm(FALSE, 10, 0))
    /\ display = <<"5">>

\* C9: when input_operation directly follows an accepted input_operation,
\* display, stored_value and waiting_for_operand keep their values, error
\* stays absent and current_operation becomes the operation pressed last.
C9_RepeatedOperation ==
    [][(/\ last.call = "input_operation"
        /\ ~IsSome(error)
        /\ last'.call = "input_operation") =>
          /\ UNCHANGED <<display, stored_value, waiting_for_operand>>
          /\ error' = None
          /\ current_operation' = last'.arg]_vars

\* 5 and three operations in a row, the last one Divide
C9_Witness ==
    /\ shape = <<"D", "O", "O", "O">>
    /\ display = <<"5">>
    /\ stored_value = Some(Norm(FALSE, 5, 0))
    /\ current_operation = Some("Divide")
    /\ waiting_for_operand
    /\ error = None

\* the number v as an integer count of 2^(-2 * MaxFrac)
Units(v) ==
    (IF v.neg THEN -1 ELSE 1) * v.man * Pow(2, v.exp + 2 * MaxFrac)

One == Pow(2, 2 * MaxFrac)

\* C10: apply(left, right) is Ok(left + right) for Add, Ok(left - right)
\* for Subtract, Ok(left * right) for Multiply, Ok(left / right) for
\* Divide with right not zero, and the error "Error: Division by zero"
\* for Divide with right zero; Add, Subtract and Multiply never fail.
C10_ApplyArithmetic ==
    (IsSome(applied) /\ IsSome(Unwrap(applied).result)) =>
        LET a == Unwrap(applied)
            r == Unwrap(a.result)
        IN  CASE a.op = "Add" ->
                   r.ok /\ Units(r.val) = Units(a.left) + Units(a.right)
              [] a.op = "Subtract" ->
                   r.ok /\ Units(r.val) = Units(a.left) - Units(a.right)
              [] a.op = "Multiply" ->
                   r.ok /\ Units(r.val) * One
                             = Units(a.left) * Units(a.right)
              [] a.op = "Divide" ->
                   IF a.right.man = 0
                   THEN r = Err(Text("Error: Division by zero"))
                   ELSE r.ok /\ Units(r.val) * Units(a.right)
                                  = Units(a.left) * One

\* 5 - 2.5 applied, giving 2.5
C10_Witness ==
    /\ IsSome(applied)
    /\ Unwrap(applied).op = "Subtract"
    /\ Unwrap(applied).left = Norm(FALSE, 5, 0)
    /\ Unwrap(applied).right = Norm(FALSE, 5, -1)
    /\ Unwrap(applied).result = Some(Ok(Norm(FALSE, 5, -1)))


\* C11: in every reachable state get_display_text returns the error text
\* when error is set and the display buffer verbatim otherwise; the read
\* is a function of the state, so reading again gives the same text.
C11_DisplayText ==
    /\ IsSome(error) =>
          /\ shown = Unwrap(error)
          /\ shown \in {DivisionByZero, Overflow}
    /\ ~IsSome(error) => shown = display
    /\ get_display_text = shown

\* the label shows the error of a division by zero, not the display buffer
C11_Witness ==
    /\ error = Some(DivisionByZero)
    /\ shown = DivisionByZero
    /\ display = <<"0">>
    /\ last.call = "calculate"

\* the characters of a text are decimal digits and at most one "."
DigitsAndPoint(s) ==
    /\ \A i \in 1..Len(s) : IsDigitChar(s[i]) \/ s[i] = "."
    /\ DotCount(s) <= 1

\* C12 as stated: in every reachable state the display buffer is non-empty
\* and consists only of decimal digit characters plus at most one ".".
C12_DigitsOnly ==
    /\ display # <<>>
    /\ DigitsAndPoint(display)

\* C12: in every reachable state the display buffer is non-empty and
\* consists of an optional leading "-", written by to_string for a negative
\* result, followed by decimal digit characters and at most one ".".
C12_DisplayCharacters ==
    /\ display # <<>>
    /\ IF display[1] = "-"
       THEN /\ Tail(display) # <<>>
            /\ DigitsAndPoint(Tail(display))
            /\ IsSome(stored_value)
            /\ Parse(display) = Unwrap(stored_value)
       ELSE DigitsAndPoint(display)

\* 0 - 5 was calculated: the display is "-5"
C12_Witness ==
    /\ display = <<"-", "5">>
    /\ stored_value = Some(Norm(TRUE, 5, 0))
    /\ last.call = "calculate"
    /\ ~IsSome(error)

\* a typed text has no unnecessary leading zero
NoLeadingZero(s) ==
    \/ s = <<"0">>
    \/ Len(s) >= 2 /\ s[1] = "0" /\ s[2] = "."
    \/ s[1] # "0"

\* the sessions that type one number: digits, then perhaps a decimal point
\* and more digits
TypesNumber(sh) ==
    sh \in {<<"D">>, <<"D", "P">>, <<"D", "P", "D">>}

\* C13 as stated: for any number typed into a new engine with digit
\* inputs, optionally followed by a decimal point and more digits, the
\* display is "0", begins with "0." or does not begin with "0".
C13_AnyDigits ==
    TypesNumber(shape) => NoLeadingZero(display)

\* C13: for a number typed into a new engine with digit inputs of which the
\* first is not 0 unless it is the only one, optionally followed by a
\* decimal point and more digits, the display is "0", begins with "0." or
\* does not begin with "0": it holds after the digits of the integer part,
\* and the decimal point and the digits after it keep it.
C13_NoLeadingZero ==
    /\ [](shape = <<"D">> /\ typed # <<>> /\ (typed = <<0>> \/ typed[1] # 0)
            => NoLeadingZero(display))
    /\ [][TypesNumber(shape) /\ TypesNumber(shape') /\ shape' # <<"D">>
            /\ NoLeadingZero(display)
            => NoLeadingZero(display')]_vars

\* 1, decimal point, 5 was typed
C13_Witness ==
    /\ shape = <<"D", "P", "D">>
    /\ display = <<"1", ".", "5">>
    /\ last.call = "input_digit"

\* input_operation finds a pending operation and a new operand: it applies
\* the pending operation before it records the new one
ChainPending == CanCalculate /\ ~waiting_for_operand

\* C14: when input_operation(op) is called with a stored value a and a
\* previous operation both present, waiting_for_operand false and the
\* display holding b, and the previous operation applied to a and b
\* succeeds with R, then display is the text of R, stored_value is R,
\* current_operation is op and waiting_for_operand is true.
C14_ChainResult ==
    [][(last'.call = "input_operation" /\ ChainPending /\ Pending.ok) =>
          /\ display' = ToString(Pending.val)
          /\ stored_value' = Some(Pending.val)
          /\ current_operation' = last'.arg
          /\ waiting_for_operand' = TRUE
          /\ error' = None
          /\ fresh_start' = fresh_start]_vars

\* 5, Divide, 10, Add: the display shows 0.5 before the next operand
C14_Witness ==
    /\ shape = <<"D", "O", "D", "O">>
    /\ last.call = "input_operation"
    /\ display = <<"0", ".", "5">>
    /\ stored_value = Some(Norm(FALSE, 1, -1))
    /\ current_operation = Some("Add")
    /\ waiting_for_operand
    /\ ~IsSome(error)

\* C15: when the chain calculation of input_operation(op) fails (a pending
\* Divide and a new operand that is zero), error is set to the failure's
\* message and display, stored_value, current_operation and
\* waiting_for_operand keep their values: the pending operation is not
\* replaced by op.
C15_ChainFailure ==
    [][(last'.call = "input_operation" /\ ChainPending) =>
          /\ ~Pending.ok =>
                /\ current_operation = Some("Divide")
                /\ IsZero(Parse(display))
          /\ (current_operation = Some("Divide") /\ IsZero(Parse(display))) =>
                /\ error' = Some(DivisionByZero)
                /\ display' = display
                /\ stored_value' = stored_value
                /\ current_operation' = current_operation
                /\ waiting_for_operand' = waiting_for_operand
                /\ fresh_start' = fresh_start]_vars

\* 5, Divide, 0, Add: the error is set and Divide is still the operation
C15_Witness ==
    /\ shape = <<"D", "O", "D", "O">>
    /\ last = [call |-> "input_operation", arg |-> <<"Add">>,
               blocked |-> FALSE]
    /\ error = Some(DivisionByZero)
    /\ display = <<"0">>
    /\ stored_value = Some(Norm(FALSE, 5, 0))
    /\ current_operation = Some("Divide")
    /\ ~waiting_for_operand

\* the number a sequence of digits writes
OperandValue(ds) == Norm(FALSE, DigitsNumber(ds), 0)

\* a op1 b of a scripted session
FirstResult(s) == Apply(s.op1, OperandValue(s.a), OperandValue(s.b))

\* (a op1 b) op2 c of a scripted session whose a op1 b succeeds
SecondResult(s) == Apply(s.op2, FirstResult(s).val, OperandValue(s.c))

\* the number of calls of a scripted session up to and including op2
UpToSecondOperation(s) == Len(s.a) + 1 + Len(s.b) + 1

\* C16: operations are applied strictly left to right: in the session a,
\* op1, b, op2, c, equals on a new engine, with no division by zero, the
\* display after op2 is the text of a op1 b, and the display after equals
\* is the text of (a op1 b) op2 c.
C16_LeftToRight ==
    IsSome(script) =>
        LET s == Unwrap(script) IN
        /\ (s.done = UpToSecondOperation(s) /\ FirstResult(s).ok) =>
              /\ ~IsSome(error)
              /\ display = ToString(FirstResult(s).val)
              /\ shown = display
        /\ (/\ s.done = Len(ScriptCalls(s))
            /\ FirstResult(s).ok
            /\ SecondResult(s).ok) =>
              /\ ~IsSome(error)
              /\ display = ToString(SecondResult(s).val)
              /\ shown = display

\* 1, Add, 1, Multiply, 5, equals shows 10, not 1 + (1 * 5)
C16_Witness ==
    /\ IsSome(script)
    /\ Unwrap(script) =
          [a |-> <<1>>, op1 |-> "Add", b |-> <<1>>, op2 |-> "Multiply",
           c |-> <<5>>, done |-> 6]
    /\ last.call = "calculate"
    /\ display = <<"1", "0">>

\* C17: calculate changes nothing when stored_value or current_operation is
\* absent: on a new engine, after digits only, and directly after a
\* successful calculate.
C17_CalculateNoOp ==
    [][(/\ last'.call = "calculate"
        /\ ~IsSome(stored_value) \/ ~IsSome(current_operation)) =>
          /\ state' = state
          /\ get_display_text' = get_display_text]_vars

\* equals was pressed again directly after 5 + 5 = 10
C17_Witness ==
    /\ shape = <<"D", "O", "D", "E", "E">>
    /\ last.call = "calculate"
    /\ ~last.blocked
    /\ display = <<"1", "0">>
    /\ stored_value = Some(Norm(FALSE, 10, 0))
    /\ current_operation = None
    /\ waiting_for_operand

\* input_operation is accepted and applies no pending operation
NoChain ==
    /\ ~IsSome(error)
    /\ InModel(Parse(display))
    /\ ~(/\ IsSome(stored_value)
         /\ IsSome(current_operation)
         /\ ~waiting_for_operand)

\* C18 as stated: when input_operation performs no chain calculation, it
\* sets stored_value to the parsed display value only if stored_value was
\* absent; a stored_value that was present is left unchanged.
C18_StoredOnlyIfAbsent ==
    [][(last'.call = "input_operation" /\ NoChain) =>
          IF IsSome(stored_value)
          THEN stored_value' = stored_value
          ELSE stored_value' = Some(Parse(display))]_vars

\* C18: when input_operation performs no chain calculation, it sets
\* stored_value to the parsed display value if stored_value or
\* current_operation was absent, replacing the stored result of a completed
\* calculation by the number typed after it; if both were present, a
\* repeated operation while waiting for the operand, stored_value is left
\* unchanged.
C18_StoredUnlessPending ==
    [][(last'.call = "input_operation" /\ NoChain) =>
          IF IsSome(stored_value) /\ IsSome(current_operation)
          THEN stored_value' = stored_value
          ELSE stored_value' = Some(Parse(display))]_vars

\* a result, then the digit 1, then Add: the stored value is 1
C18_Witness ==
    /\ shape = <<"D", "O", "D", "E", "D", "O">>
    /\ last = [call |-> "input_operation", arg |-> <<"Add">>,
               blocked |-> FALSE]
    /\ display = <<"1">>
    /\ stored_value = Some(Norm(FALSE, 1, 0))
    /\ current_operation = Some("Add")
    /\ waiting_for_operand

\* C19: fresh_start is true exactly when no digit or decimal-point input
\* has been accepted since construction or the most recent clear: the first
\* accepted one makes it false, and only clear makes it true again.
C19_FreshStart == fresh_start <=> ~accepted

\* an operation was recorded and the digit 10 was refused: still fresh
C19_Witness ==
    /\ last = [call |-> "input_digit", arg |-> <<10>>, blocked |-> FALSE]
    /\ IsSome(current_operation)
    /\ fresh_start
    /\ ~accepted

\* C20: with no error set, input_decimal_point replaces the display by "0."
\* and makes waiting_for_operand and fresh_start false when one of them is
\* true; otherwise it appends "." to a display without one and changes
\* nothing when the display has one; stored_value and current_operation
\* are never changed.
C20_DecimalPoint ==
    [][(last'.call = "input_decimal_point" /\ ~IsSome(error)) =>
          /\ stored_value' = stored_value
          /\ current_operation' = current_operation
          /\ error' = error
          /\ IF waiting_for_operand \/ fresh_start
             THEN /\ display' = <<"0", ".">>
                  /\ waiting_for_operand' = FALSE
                  /\ fresh_start' = FALSE
             ELSE IF ~ContainsDot(display)
             THEN /\ display' = display \o <<".">>
                  /\ waiting_for_operand' = waiting_for_operand
                  /\ fresh_start' = fresh_start
             ELSE state' = state]_vars

\* 5, Multiply, decimal point: the display is "0." and 5 is still stored
C20_Witness ==
    /\ shape = <<"D", "O", "P">>
    /\ last.call = "input_decimal_point"
    /\ display = <<"0", ".">>
    /\ stored_value = Some(Norm(FALSE, 5, 0))
    /\ current_operation = Some("Multiply")
    /\ ~waiting_for_operand
    /\ ~fresh_start

\* C21: in every reachable state without error the display is not empty,
\* is not ".", and parses as a number, so the guards of input_operation and
\* calculate against an unparsable operand are never taken.
C21_DisplayParses ==
    ~IsSome(error) =>
        /\ display # <<>>
        /\ display # Text(".")
        /\ IsParsed(Parse(display))

\* a display that ends with the decimal point still parses
C21_Witness ==
    /\ display = <<"5", ".">>
    /\ Parse(display) = Norm(FALSE, 5, 0)
    /\ IsSome(current_operation)
    /\ ~IsSome(error)

\* a step in which calculate or a chaining input_operation applies the
\* pending operation
Computes ==
    \/ last'.call = "calculate" /\ CanCalculate
    \/ last'.call = "input_operation" /\ ChainPending

\* C22: while error is absent the value shown in display is finite: when
\* calculate or a chaining input_operation computes a result that is
\* infinite or not a number, it sets error instead of writing the result
\* into display.
C22_ResultsFinite ==
    [][Computes => (IsSome(error') \/ IsFin(Parse(display')))]_vars

\* C23: in every reachable state a present current_operation implies a
\* present stored_value, and waiting_for_operand implies a present
\* stored_value.
C23_StoredPresent ==
    /\ IsSome(current_operation) => IsSome(stored_value)
    /\ waiting_for_operand => IsSome(stored_value)

\* after a result: waiting for an operand with no operation, the result
\* stored
C23_Witness ==
    /\ waiting_for_operand
    /\ current_operation = None
    /\ stored_value = Some(Norm(FALSE, 1, -1))
    /\ display = <<"0", ".", "5">>
    /\ last.call = "calculate"

\* C24: in every reachable state fresh_start implies that display is "0"
\* and that stored_value is absent or zero, also after operations and
\* equals made before any digit was typed.
C24_FreshDisplay ==
    fresh_start =>
        /\ display = <<"0">>
        /\ ~IsSome(stored_value) \/ IsZero(Unwrap(stored_value))

\* Multiply and equals on a new engine: 0 * 0 is shown, still fresh
C24_Witness ==
    /\ fresh_start
    /\ last.call = "calculate"
    /\ ~last.blocked
    /\ ~IsSome(error)
    /\ stored_value = Some(Norm(FALSE, 0, 0))
    /\ current_operation = None
    /\ waiting_for_operand
    /\ display = <<"0">>

\* C27: error changes from absent to present only in a calculate step or
\* in an input_operation step that performs a chain calculation;
\* input_digit, input_decimal_point, clear and an input_operation without
\* chain calculation never set it.
C27_ErrorOrigin ==
    [][(~IsSome(error) /\ IsSome(error')) =>
          \/ last'.call = "calculate"
                /\ IsSome(stored_value) /\ IsSome(current_operation)
          \/ last'.call = "input_operation"
                /\ IsSome(stored_value) /\ IsSome(current_operation)
                /\ ~waiting_for_operand]_vars

\* Divide and equals on a new engine: calculate set the error
C27_Witness ==
    /\ error = Some(DivisionByZero)
    /\ last.call = "calculate"
    /\ ~last.blocked
    /\ fresh_start
    /\ current_operation = Some("Divide")
    /\ stored_value = Some(Norm(FALSE, 0, 0))

\* C25: equals pressed directly after an operation uses the value still on
\* display as the right operand: the session a, op, equals on a new engine
\* ends with the result of a op a on display and stored, and with the
\* division-by-zero error when op is Divide and a is zero, as it is when no
\* digit was typed.
C25_RepeatedOperand ==
    (IsSome(script) /\ Unwrap(script).done = Len(ScriptCalls(Unwrap(script))))
    =>  LET s == Unwrap(script)
            a == OperandValue(s.a)
        IN  IF s.op1 = "Divide" /\ DigitsNumber(s.a) = 0
            THEN /\ error = Some(DivisionByZero)
                 /\ shown = DivisionByZero
            ELSE /\ ~IsSome(error)
                 /\ Apply(s.op1, a, a).ok
                 /\ display = ToString(Apply(s.op1, a, a).val)
                 /\ stored_value = Some(Apply(s.op1, a, a).val)
                 /\ current_operation = None
                 /\ shown = display

\* 5, Add, equals shows 10
C25_Witness ==
    /\ script = Some([a |-> <<5>>, op1 |-> "Add", done |-> 3])
    /\ last.call = "calculate"
    /\ display = <<"1", "0">>
    /\ stored_value = Some(Norm(FALSE, 10, 0))

\* C26: a calculation entered after a completed one does not depend on the
\* earlier result: after a successful calculate with any result R, the
\* session c, op2, d, equals without division by zero ends with the text
\* of c op2 d on display and c op2 d stored.
C26_IndependentOfResult ==
    (IsSome(script) /\ Unwrap(script).done = Len(ScriptCalls(Unwrap(script))))
    =>  LET s == Unwrap(script)
            R == Apply(s.op1, OperandValue(s.a), OperandValue(s.b))
            r == Apply(s.op2, OperandValue(s.c), OperandValue(s.d))
        IN  (R.ok /\ r.ok) =>
                /\ ~IsSome(error)
                /\ display = ToString(r.val)
                /\ stored_value = Some(r.val)
                /\ shown = display

\* 5 + 5 = 10, then 1 - 5 = shows -4
C26_Witness ==
    /\ script = Some([a |-> <<5>>, op1 |-> "Add", b |-> <<5>>, c |-> <<1>>,
                      op2 |-> "Subtract", d |-> <<5>>, done |-> 8])
    /\ last.call = "calculate"
    /\ display = <<"-", "4">>
    /\ stored_value = Some(Norm(TRUE, 4, 0))

====
